---- MODULE Spec2Model ----
(***************************************************************************)
(* Model of xpra/util/parsing.py: parse_scaling, parse_simple_dict and     *)
(* parse_scaling_value, and of the keymap modifiers cache and the GNOME    *)
(* input sources of xpra/platform/posix/keyboard.py.                       *)
(*                                                                         *)
(* Python strings are sequences of one-character strings.  Numbers are     *)
(* exact rationals <<n, d>> with d > 0 in lowest terms: an int is <<n, 1>>.*)
(* Python's float rounding is not modelled (5.0/3 is <<5, 3>>).            *)
(* A call is a small state machine: the inputs are drawn in Init, every    *)
(* action is one stretch of the function's body, pc is the position.       *)
(***************************************************************************)
EXTENDS Integers, Sequences, FiniteSets

VARIABLES
    \* parse_scaling
    desktop_scaling, root_w, root_h, min_scaling, max_scaling,
    limits, sx, sy, pc, result,
    \* parse_simple_dict
    s, sep, els, idx, d, warnings, dpc,
    \* parse_scaling_value
    v, values, vpc, ret,
    \* Keyboard: the keymap modifiers cache
    keymap_modifiers, keyboard_bindings, modifier_map, mod_mappings, wayland,
    queries, gets, returned, fresh,
    \* Keyboard: the GNOME input sources
    input_sources, dbus_helper, in_flight, reply, activations, last_call

scalingVars == <<desktop_scaling, root_w, root_h, min_scaling, max_scaling,
                 limits, sx, sy, pc, result>>
dictVars == <<s, sep, els, idx, d, warnings, dpc>>
ratioVars == <<v, values, vpc, ret>>
keymapVars == <<keymap_modifiers, keyboard_bindings, modifier_map, mod_mappings,
                wayland, queries, gets, returned, fresh>>
layoutVars == <<input_sources, dbus_helper, in_flight, reply, activations,
                last_call>>
keyboardVars == <<keymapVars, layoutVars>>
vars == <<scalingVars, dictVars, ratioVars, keyboardVars>>

----------------------------------------------------------------------------
(* Python str methods, on sequences of characters *)

startswith(str, p) == Len(str) >= Len(p) /\ SubSeq(str, 1, Len(p)) = p

endswith(str, p) ==
    Len(str) >= Len(p) /\ SubSeq(str, Len(str) - Len(p) + 1, Len(str)) = p

\* str.find(c) for a one-character c: 0-based index of the first c, or -1
find(str, c) ==
    IF \E i \in 1..Len(str) : str[i] = c
    THEN (CHOOSE i \in 1..Len(str) :
            str[i] = c /\ \A j \in 1..(i - 1) : str[j] # c) - 1
    ELSE -1

\* str.replace(a, b) for one-character a and b
replace(str, a, b) == [i \in 1..Len(str) |-> IF str[i] = a THEN b ELSE str[i]]

\* 1-based position of the first occurrence of the non-empty p in str, or 0
FirstAt(str, p) ==
    LET At(i) == SubSeq(str, i, i + Len(p) - 1) = p
        Pos == {i \in 1..(Len(str) - Len(p) + 1) : At(i)}
    IN IF Pos = {} THEN 0 ELSE CHOOSE i \in Pos : \A j \in Pos : i <= j

\* str.split(p) for a non-empty p: left to right, every occurrence
RECURSIVE split(_, _)
split(str, p) ==
    LET i == FirstAt(str, p)
    IN IF i = 0 THEN <<str>>
       ELSE <<SubSeq(str, 1, i - 1)>> \o split(SubSeq(str, i + Len(p), Len(str)), p)

\* str.split(p, 1): at most one split, at the first occurrence
split1(str, p) ==
    LET i == FirstAt(str, p)
    IN IF i = 0 THEN <<str>>
       ELSE <<SubSeq(str, 1, i - 1), SubSeq(str, i + Len(p), Len(str))>>

\* p.join(parts)
RECURSIVE join(_, _)
join(parts, p) ==
    IF parts = <<>> THEN <<>>
    ELSE IF Len(parts) = 1 THEN parts[1]
    ELSE parts[1] \o p \o join(Tail(parts), p)

----------------------------------------------------------------------------
(* Numbers *)

Abs(n) == IF n < 0 THEN -n ELSE n

RECURSIVE GCD(_, _)
GCD(a, b) == IF b = 0 THEN a ELSE GCD(b, a % b)

\* the rational n/d (d # 0), in lowest terms with a positive denominator
Rat(n, dd) ==
    LET g == GCD(Abs(n), Abs(dd))
        sg == IF dd < 0 THEN -1 ELSE 1
    IN <<sg * (n \div g), sg * (dd \div g)>>

Zero == <<0, 1>>
One == <<1, 1>>

RDiv(a, b) == Rat(a[1] * b[2], a[2] * b[1])
RLt(a, b) == a[1] * b[2] < b[1] * a[2]
RGt(a, b) == RLt(b, a)

Digits == {"0", "1", "2", "3", "4", "5", "6", "7", "8", "9"}

DigitVal(c) ==
    CASE c = "0" -> 0 [] c = "1" -> 1 [] c = "2" -> 2 [] c = "3" -> 3
      [] c = "4" -> 4 [] c = "5" -> 5 [] c = "6" -> 6 [] c = "7" -> 7
      [] c = "8" -> 8 [] c = "9" -> 9

IsDigits(str) == Len(str) > 0 /\ \A i \in 1..Len(str) : str[i] \in Digits

RECURSIVE NatVal(_)
NatVal(str) ==
    IF str = <<>> THEN 0
    ELSE NatVal(SubSeq(str, 1, Len(str) - 1)) * 10 + DigitVal(str[Len(str)])

RECURSIVE Pow10(_)
Pow10(k) == IF k = 0 THEN 1 ELSE 10 * Pow10(k - 1)

Unsigned(str) == IF Len(str) > 0 /\ str[1] = "-" THEN Tail(str) ELSE str
Sign(str) == IF Len(str) > 0 /\ str[1] = "-" THEN -1 ELSE 1

\* int(str) succeeds: an optional '-' and one or more digits
IsIntLit(str) == IsDigits(Unsigned(str))
IntVal(str) == Sign(str) * NatVal(Unsigned(str))

\* float(str) succeeds: an optional '-', digits with at most one '.', and
\* at least one digit ("1.5", "1.", ".5", "2")
IsFloatLit(str) ==
    LET u == Unsigned(str)
        p == split1(u, <<".">>)
    IN /\ \A i \in 1..Len(p) : p[i] = <<>> \/ IsDigits(p[i])
       /\ \E i \in 1..Len(p) : p[i] # <<>>

FloatVal(str) ==
    LET u == Unsigned(str)
        p == split1(u, <<".">>)
        frac == IF Len(p) = 2 THEN p[2] ELSE <<>>
    IN Rat(Sign(str) * (NatVal(p[1]) * Pow10(Len(frac)) + NatVal(frac)),
           Pow10(Len(frac)))

\* a*b as <<hi, lo>> with a*b = hi*1024 + lo, |lo| < 1024, hi and lo of the
\* sign of a*b: Python's unbounded int product, kept within 32 bits
Product(a, b) ==
    LET sg == IF (a < 0) # (b < 0) THEN -1 ELSE 1
        aH == Abs(a) \div 1024
        aL == Abs(a) % 1024
        low == aL * Abs(b)
    IN <<sg * (aH * Abs(b) + (low \div 1024)), sg * (low % 1024)>>

\* p <= q for two products
ProductLeq(p, q) == p[1] < q[1] \/ (p[1] = q[1] /\ p[2] <= q[2])

----------------------------------------------------------------------------
(* parse_scaling *)

\* xpra.scripts.config.TRUE_OPTIONS: "yes", "true", "1", "on"
TRUE_OPTIONS ==
    {<<"y", "e", "s">>, <<"t", "r", "u", "e">>, <<"1">>, <<"o", "n">>}

MIN_SCALING == Rat(1, 10)
MAX_SCALING == Rat(8, 1)

\* the default table of auto mode: (max_width, max_height, scale_x, scale_y)
DefaultLimits ==
    << <<3960, 2160, One, One>>,
       <<7680, 4320, Rat(5, 4), Rat(5, 4)>>,
       <<8192, 8192, Rat(3, 2), Rat(3, 2)>>,
       <<16384, 16384, Rat(5, 3), Rat(5, 3)>>,
       <<32768, 32768, Rat(2, 1), Rat(2, 1)>>,
       <<65536, 65536, Rat(4, 1), Rat(4, 1)>> >>

\* the scale part of a table entry, split: "1.5*2" -> <<"1.5", "2">>
ScaleParts(str) == split(replace(replace(str, "*", "x"), "/", "x"), <<"x">>)

\* the body of the try block for one table entry l runs without exception
LimitParses(l) ==
    LET ldef == split(l, <<":">>)
    IN /\ Len(ldef) = 2
       /\ LET dims == split(ldef[1], <<"x">>)
              scaleparts == ScaleParts(ldef[2])
          IN /\ Len(dims) = 2
             /\ IsIntLit(dims[1]) /\ IsIntLit(dims[2])
             /\ Len(scaleparts) <= 2
             /\ \A i \in 1..Len(scaleparts) : IsFloatLit(scaleparts[i])

\* the tuple (x, y, sx, sy) appended for an entry that parses
LimitOf(l) ==
    LET ldef == split(l, <<":">>)
        dims == split(ldef[1], <<"x">>)
        scaleparts == ScaleParts(ldef[2])
    IN <<IntVal(dims[1]), IntVal(dims[2]),
         FloatVal(scaleparts[1]),
         IF Len(scaleparts) = 1 THEN FloatVal(scaleparts[1])
         ELSE FloatVal(scaleparts[2])>>

\* ParseLimits with the loop left at the first entry that raises
RECURSIVE ParseLimits_StopAtBad(_)
ParseLimits_StopAtBad(limp) ==
    IF limp = <<>> \/ ~LimitParses(limp[1]) THEN <<>>
    ELSE <<LimitOf(limp[1])>> \o ParseLimits_StopAtBad(Tail(limp))

\* the loop over limp: an entry that raises is skipped, the others are
\* appended in the order written
RECURSIVE ParseLimits(_)
ParseLimits(limp) ==
    IF limp = <<>> THEN <<>>
    ELSE (IF LimitParses(limp[1]) THEN <<LimitOf(limp[1])>> ELSE <<>>)
         \o ParseLimits(Tail(limp))

\* the table auto mode uses for desktop_scaling
AutoLimits(ds) ==
    IF startswith(ds, <<"a", "u", "t", "o", ":">>)
    THEN ParseLimits(split(SubSeq(ds, 6, Len(ds)), <<",">>))
    ELSE DefaultLimits

\* MatchLimits without the break: the last matching row wins
RECURSIVE MatchLimits_NoBreak(_, _, _)
MatchLimits_NoBreak(lims, w, h) ==
    IF lims = <<>> THEN <<One, One>>
    ELSE LET n == Len(lims)
         IN IF ProductLeq(Product(w, h), Product(lims[n][1], lims[n][2]))
            THEN <<lims[n][3], lims[n][4]>>
            ELSE MatchLimits_NoBreak(SubSeq(lims, 1, n - 1), w, h)

\* the loop over limits: the first row with root_w*root_h <= mx*my wins
RECURSIVE MatchLimits(_, _, _)
MatchLimits(lims, w, h) ==
    IF lims = <<>> THEN <<One, One>>
    ELSE IF ProductLeq(Product(w, h), Product(lims[1][1], lims[1][2]))
         THEN <<lims[1][3], lims[1][4]>>
         ELSE MatchLimits(Tail(lims), w, h)

\* parse_item(v): <<"ok", value>>, or <<"IndexError", 0>> when pair[1] is
\* read from a one-element pair
parse_item(item) ==
    LET pct == endswith(item, <<"%">>)
        div == IF pct THEN 100 ELSE 1
        w == IF pct THEN SubSeq(item, 1, Len(item) - 1) ELSE item
        pair == split1(replace(w, ":", "/"), <<"/">>)
    IN IF div = 1 /\ IsIntLit(w) THEN <<"ok", Rat(IntVal(w), 1)>>
       ELSE IF IsFloatLit(w) THEN <<"ok", RDiv(FloatVal(w), Rat(div, 1))>>
       ELSE IF ~IsFloatLit(pair[1]) THEN <<"ok", Zero>>
       ELSE IF Len(pair) < 2 THEN <<"IndexError", Zero>>
       ELSE IF ~IsFloatLit(pair[2]) THEN <<"ok", Zero>>
       ELSE IF FloatVal(pair[2]) = Zero THEN <<"ok", Zero>>
       ELSE <<"ok", RDiv(FloatVal(pair[1]), FloatVal(pair[2]))>>

\* the two components of a fixed value: "1600x1200" -> <<"1600", "1200">>
FixedValues(ds) == split1(replace(ds, ",", "x"), <<"x">>)

IsAuto(ds) == startswith(ds, <<"a", "u", "t", "o">>)
IsConflicting(ds) == find(ds, "x") > 0 /\ find(ds, ":") > 0

\* sx>max_scaling or sy>max_scaling
Exceeds(a, b, mx) == RGt(a, mx) \/ RGt(b, mx)

\* sx<min_scaling or sy<min_scaling or sx>max_scaling or sy>max_scaling
OutOfRange(a, b, mn, mx) == RLt(a, mn) \/ RLt(b, mn) \/ RGt(a, mx) \/ RGt(b, mx)

Return(a, b) == <<"return", a, b>>
Raise(e) == <<e, Zero, Zero>>
NoResult == <<"none", Zero, Zero>>

\* line 34: a truthy token means no scaling
Truthy ==
    /\ pc = "call"
    /\ desktop_scaling \in TRUE_OPTIONS
    /\ result' = Return(One, One)
    /\ pc' = "done"
    /\ UNCHANGED <<desktop_scaling, root_w, root_h, min_scaling, max_scaling,
                   limits, sx, sy, dictVars, ratioVars, keyboardVars>>

\* lines 36-72: auto mode, the table is the default one or parsed from
\* the text after "auto:"
AutoTable ==
    /\ pc = "call"
    /\ desktop_scaling \notin TRUE_OPTIONS
    /\ IsAuto(desktop_scaling)
    /\ limits' = AutoLimits(desktop_scaling)
    /\ pc' = "auto"
    /\ UNCHANGED <<desktop_scaling, root_w, root_h, min_scaling, max_scaling,
                   sx, sy, result, dictVars, ratioVars, keyboardVars>>

\* lines 73-81: the first matching row is returned as it is
AutoMatch ==
    /\ pc = "auto"
    /\ LET m == MatchLimits(limits, root_w, root_h)
       IN /\ sx' = m[1]
          /\ sy' = m[2]
          /\ result' = Return(m[1], m[2])
    /\ pc' = "done"
    /\ UNCHANGED <<desktop_scaling, root_w, root_h, min_scaling, max_scaling,
                   limits, dictVars, ratioVars, keyboardVars>>

\* lines 107-110: both 'x' and ':' in a fixed value
ConflictingSeparators ==
    /\ pc = "call"
    /\ desktop_scaling \notin TRUE_OPTIONS
    /\ ~IsAuto(desktop_scaling)
    /\ IsConflicting(desktop_scaling)
    /\ result' = Return(One, One)
    /\ pc' = "done"
    /\ UNCHANGED <<desktop_scaling, root_w, root_h, min_scaling, max_scaling,
                   limits, sx, sy, dictVars, ratioVars, keyboardVars>>

\* the state after lines 112-122 for the components vals, as
\* <<pc, sx, sy, result>>
ParsedItems(vals) ==
    LET px == parse_item(vals[1])
        py == IF Len(vals) = 1 THEN px ELSE parse_item(vals[2])
    IN IF px[1] # "ok" THEN <<"done", Zero, Zero, Raise(px[1])>>
       ELSE IF px[2] = Zero THEN <<"done", px[2], Zero, Return(One, One)>>
       ELSE IF py[1] # "ok" THEN <<"done", px[2], Zero, Raise(py[1])>>
       ELSE <<"parsed", px[2], py[2], NoResult>>

\* lines 112-122: split into one or two components and parse them
ParseItems ==
    /\ pc = "call"
    /\ desktop_scaling \notin TRUE_OPTIONS
    /\ ~IsAuto(desktop_scaling)
    /\ ~IsConflicting(desktop_scaling)
    /\ LET st == ParsedItems(FixedValues(desktop_scaling))
       IN /\ pc' = st[1]
          /\ sx' = st[2]
          /\ sy' = st[3]
          /\ result' = st[4]
    /\ UNCHANGED <<desktop_scaling, root_w, root_h, min_scaling, max_scaling,
                   limits, dictVars, ratioVars, keyboardVars>>

\* Normalized dividing only the value that exceeds max_scaling
Normalized_OnlyExceeding(a, b, w, h, mx) ==
    IF (RGt(a, mx) /\ w = 0) \/ (RGt(b, mx) /\ h = 0)
    THEN <<"done", a, b, Raise("ZeroDivisionError")>>
    ELSE <<"normalized",
           IF RGt(a, mx) THEN RDiv(a, Rat(w, 1)) ELSE a,
           IF RGt(b, mx) THEN RDiv(b, Rat(h, 1)) ELSE b,
           NoResult>>

\* the state after lines 125-128, as <<pc, sx, sy, result>>
Normalized(a, b, w, h, mx) ==
    IF ~Exceeds(a, b, mx) THEN <<"normalized", a, b, NoResult>>
    ELSE IF w = 0 THEN <<"done", a, b, Raise("ZeroDivisionError")>>
    ELSE IF h = 0
         THEN <<"done", RDiv(a, Rat(w, 1)), b, Raise("ZeroDivisionError")>>
    ELSE <<"normalized", RDiv(a, Rat(w, 1)), RDiv(b, Rat(h, 1)), NoResult>>

\* lines 125-128: absolute values become ratios of the root size
Normalize ==
    /\ pc = "parsed"
    /\ LET st == Normalized(sx, sy, root_w, root_h, max_scaling)
       IN /\ pc' = st[1]
          /\ sx' = st[2]
          /\ sy' = st[3]
          /\ result' = st[4]
    /\ UNCHANGED <<desktop_scaling, root_w, root_h, min_scaling, max_scaling,
                   limits, dictVars, ratioVars, keyboardVars>>

\* the pair returned by lines 129-133
Validated(a, b, mn, mx) ==
    IF OutOfRange(a, b, mn, mx) THEN Return(One, One) ELSE Return(a, b)

\* lines 129-133: out of range values fall back to (1, 1)
Validate ==
    /\ pc = "normalized"
    /\ result' = Validated(sx, sy, min_scaling, max_scaling)
    /\ pc' = "done"
    /\ UNCHANGED <<desktop_scaling, root_w, root_h, min_scaling, max_scaling,
                   limits, sx, sy, dictVars, ratioVars, keyboardVars>>

----------------------------------------------------------------------------
(* The calls of parse_scaling that are checked *)

MaxTokens == 3
MaxEntries == 3

\* every string made of at most k of the tokens
RECURSIVE TokenStrings(_, _)
TokenStrings(tokens, k) ==
    IF k = 0 THEN {<<>>}
    ELSE LET shorter == TokenStrings(tokens, k - 1)
         IN shorter \cup {t \o u : t \in tokens, u \in shorter}

FixedTokens ==
    {<<"2">>, <<"9">>, <<"0">>, <<".">>, <<"x">>, <<":">>, <<"/">>, <<",">>,
     <<"%">>, <<"-">>, <<"a">>}

FixedRoots == {<<0, 0>>, <<3, 2>>}

ScalingBounds ==
    {<<MIN_SCALING, MAX_SCALING>>, <<Zero, MAX_SCALING>>, <<Rat(1, 2), Rat(6, 5)>>}

Str1920x1080 == <<"1", "9", "2", "0", "x", "1", "0", "8", "0">>

ExampleStrings ==
    TRUE_OPTIONS \cup
    {Str1920x1080,
     <<"1", "5", "0", "%">>,
     <<"3", ":", "2">>,
     <<"3", "/", "2">>,
     <<"1", "/", "2", "%">>,
     <<"a", "x", "b", ":", "2">>,
     <<"1", "9", "2", "0", "x", "a">>}

ExampleRoots == {<<0, 0>>, <<1920, 1080>>, <<1920, 0>>}

\* entries of an "auto:" table, well formed and malformed
AutoEntries ==
    {Str1920x1080 \o <<":", "1">>,
     <<"3", "8", "4", "0", "x", "2", "1", "6", "0", ":", "2">>,
     <<"8", "1", "9", "2", "x", "8", "1", "9", "2", ":", "9", "*", "1", ".", "5">>,
     Str1920x1080,
     <<"a", "x", "1", ":", "1">>,
     <<"1", "x", "1", ":", "a">>,
     <<"1", "x", "1", ":", "1", "x", "2", "x", "3">>,
     <<>>}

RECURSIVE EntryLists(_)
EntryLists(k) ==
    IF k = 0 THEN {<<>>}
    ELSE LET shorter == EntryLists(k - 1)
         IN shorter \cup {<<e>> \o l : e \in AutoEntries, l \in shorter}

StrAuto == <<"a", "u", "t", "o">>

AutoStrings ==
    {StrAuto, StrAuto \o <<"x", "2">>}
    \cup {StrAuto \o <<":">> \o join(l, <<",">>) : l \in EntryLists(MaxEntries)}

AutoRoots ==
    {<<0, 0>>, <<2000, 1000>>, <<3000, 2000>>, <<3840, 2160>>, <<8000, 4300>>}

\* (desktop_scaling, (root_w, root_h), (min_scaling, max_scaling))
ScalingCalls ==
    (TokenStrings(FixedTokens, MaxTokens) \X FixedRoots \X ScalingBounds)
    \cup (ExampleStrings \X ExampleRoots \X ScalingBounds)
    \cup (AutoStrings \X AutoRoots \X ScalingBounds)

DictIdle ==
    /\ s = <<>> /\ sep = <<>> /\ els = <<>> /\ idx = 0 /\ d = <<>>
    /\ warnings = 0 /\ dpc = "idle"

RatioIdle == v = <<>> /\ values = <<>> /\ vpc = "idle" /\ ret = <<"none", 0, 0>>

ScalingIdle ==
    /\ desktop_scaling = <<>> /\ root_w = 0 /\ root_h = 0
    /\ min_scaling = MIN_SCALING /\ max_scaling = MAX_SCALING
    /\ limits = <<>> /\ sx = Zero /\ sy = Zero
    /\ pc = "idle" /\ result = NoResult

\* keymap_modifiers is <<"None", ...>> or the tuple returned by
\* do_get_keymap_modifiers, <<"tuple", meanings, [], mod_missing>>
NoModifiers == <<"None", <<>>, <<>>, <<>>>>

\* no Keyboard is constructed
KeymapIdle ==
    /\ keymap_modifiers = NoModifiers /\ keyboard_bindings = FALSE
    /\ modifier_map = <<"unset", <<>>>> /\ mod_mappings = <<"ok", <<>>>>
    /\ wayland = FALSE /\ queries = 0 /\ gets = 0
    /\ returned = NoModifiers /\ fresh = NoModifiers

LayoutIdle ==
    /\ input_sources = <<>> /\ dbus_helper = FALSE /\ in_flight = <<>>
    /\ reply = <<"none", <<>>>> /\ activations = <<>>
    /\ last_call = <<<<>>, <<>>, <<>>, -1, "none">>

InitScaling ==
    /\ \E c \in ScalingCalls :
          /\ desktop_scaling = c[1]
          /\ root_w = c[2][1]
          /\ root_h = c[2][2]
          /\ min_scaling = c[3][1]
          /\ max_scaling = c[3][2]
    /\ limits = <<>> /\ sx = Zero /\ sy = Zero
    /\ pc = "call" /\ result = NoResult
    /\ DictIdle
    /\ RatioIdle
    /\ KeymapIdle
    /\ LayoutIdle

NextScaling ==
    \/ Truthy
    \/ AutoTable
    \/ AutoMatch
    \/ ConflictingSeparators
    \/ ParseItems
    \/ Normalize
    \/ Validate

SpecScaling == InitScaling /\ [][NextScaling]_vars

----------------------------------------------------------------------------
(* Claims about parse_scaling, checked under SpecScaling *)

IsFixed(ds) == ds \notin TRUE_OPTIONS /\ ~IsAuto(ds) /\ ~IsConflicting(ds)

InRange(a, mn, mx) == ~RLt(a, mn) /\ ~RGt(a, mx)

\* C1: parse_scaling never raises: with root dimensions >= 0 and bounds
\* 0 < min_scaling <= max_scaling every call ends by returning a pair.
C1_NeverRaises ==
    (/\ pc = "done"
     /\ root_w >= 0 /\ root_h >= 0
     /\ RLt(Zero, min_scaling) /\ ~RGt(min_scaling, max_scaling))
    => result[1] = "return"

\* C2: every returned pair has both components within
\* [min_scaling, max_scaling], or is the fallback (1, 1).
C2_ReturnedInRange ==
    (pc = "done" /\ result[1] = "return")
    => \/ result = Return(One, One)
       \/ /\ InRange(result[2], min_scaling, max_scaling)
          /\ InRange(result[3], min_scaling, max_scaling)

\* C3 as written: with the default table "auto" gives (1.0, 1.0) for a
\* 3840x2160 root and (1.25, 1.25) for an 8000x4300 root.
C3_AutoDefaultAsWritten ==
    (pc = "done" /\ desktop_scaling = StrAuto)
    => /\ (root_w = 3840 /\ root_h = 2160) => result = Return(One, One)
       /\ (root_w = 8000 /\ root_h = 4300) => result = Return(Rat(5, 4), Rat(5, 4))

\* C3 amended: with the default table "auto" gives (1.0, 1.0) for a
\* 3840x2160 root and (1.5, 1.5) for an 8000x4300 root, whose area
\* 34400000 is above the 7680*4320 = 33177600 of the 125% row.
C3_AutoDefault ==
    (pc = "done" /\ desktop_scaling = StrAuto)
    => /\ (root_w = 3840 /\ root_h = 2160) => result = Return(One, One)
       /\ (root_w = 8000 /\ root_h = 4300) => result = Return(Rat(3, 2), Rat(3, 2))

C3_Witness ==
    /\ pc = "done" /\ desktop_scaling = StrAuto
    /\ root_w = 8000 /\ root_h = 4300
    /\ result = Return(Rat(3, 2), Rat(3, 2))

\* the entries written after "auto:"
WrittenEntries(ds) == split(SubSeq(ds, 6, Len(ds)), <<",">>)

\* C4: with a custom table, malformed entries are skipped, the others are
\* kept in the order written, and the result is the scale of the first
\* kept entry, in written order, whose area is at least the root's area,
\* or (1, 1) when there is none.
C4_CustomTableFirstMatch ==
    (/\ pc \in {"auto", "done"}
     /\ desktop_scaling \notin TRUE_OPTIONS
     /\ startswith(desktop_scaling, StrAuto \o <<":">>))
    => LET E == WrittenEntries(desktop_scaling)
           Kept == {i \in 1..Len(E) : LimitParses(E[i])}
           Nth(k) == CHOOSE i \in Kept :
                        Cardinality({j \in Kept : j <= i}) = k
           Fits(i) == ProductLeq(Product(root_w, root_h),
                                 Product(LimitOf(E[i])[1], LimitOf(E[i])[2]))
           Matching == {i \in Kept : Fits(i)}
           first == CHOOSE i \in Matching : \A j \in Matching : i <= j
       IN /\ Len(limits) = Cardinality(Kept)
          /\ \A k \in 1..Len(limits) : limits[k] = LimitOf(E[Nth(k)])
          /\ pc = "done" =>
                result = IF Matching = {} THEN Return(One, One)
                         ELSE Return(LimitOf(E[first])[3], LimitOf(E[first])[4])

\* a malformed entry, then two entries that both fit, the later one with
\* the smaller area
C4_Witness ==
    /\ pc = "done"
    /\ desktop_scaling =
          StrAuto \o <<":">> \o Str1920x1080 \o <<",">>
          \o <<"3", "8", "4", "0", "x", "2", "1", "6", "0", ":", "2">>
          \o <<",">> \o Str1920x1080 \o <<":", "1">>
    /\ root_w = 2000 /\ root_h = 1000
    /\ Len(limits) = 2
    /\ result = Return(Rat(2, 1), Rat(2, 1))

\* parse_item(item) ends in its warning: no attempt to parse succeeded
ItemFails(item) ==
    LET pct == endswith(item, <<"%">>)
        w == IF pct THEN SubSeq(item, 1, Len(item) - 1) ELSE item
        pair == split1(replace(w, ":", "/"), <<"/">>)
    IN /\ pct \/ ~IsIntLit(w)
       /\ ~IsFloatLit(w)
       /\ \/ Len(pair) < 2
          \/ ~IsFloatLit(pair[1])
          \/ ~IsFloatLit(pair[2])
          \/ FloatVal(pair[2]) = Zero

\* C5: a fixed-value spec whose first or second component fails to parse,
\* or whose first component parses to zero, gives (1, 1), for every
\* bounds min_scaling <= max_scaling: no pair is returned that keeps the
\* good component next to a placeholder for the bad one.  (The calls that
\* end in an exception are those of C1 and are left aside here.)
C5_BadFixedGivesFallback ==
    (/\ pc = "done"
     /\ result[1] = "return"
     /\ IsFixed(desktop_scaling)
     /\ ~RGt(min_scaling, max_scaling)
     /\ LET vals == FixedValues(desktop_scaling)
        IN \/ ItemFails(vals[1])
           \/ parse_item(vals[1])[2] = Zero
           \/ Len(vals) = 2 /\ ItemFails(vals[2]))
    => result = Return(One, One)

\* C10: when either parsed value exceeds max_scaling, sx is divided by
\* root_w and sy by root_h, both of them (a division by a zero root
\* raises ZeroDivisionError); when neither exceeds it, neither is divided.
\* "1920x1080" with a 1920x1080 root and bounds 0.1..8 gives (1.0, 1.0).
C10_NormalizeBothAxes ==
    (IsFixed(desktop_scaling) /\ pc \in {"normalized", "done"})
    => LET vals == FixedValues(desktop_scaling)
           px == parse_item(vals[1])[2]
           py == IF Len(vals) = 1 THEN px ELSE parse_item(vals[2])[2]
           over == RGt(px, max_scaling) \/ RGt(py, max_scaling)
       IN /\ (pc = "normalized" /\ ~over) => (sx = px /\ sy = py)
          /\ (pc = "normalized" /\ over) =>
                /\ root_w # 0 /\ root_h # 0
                /\ sx = Rat(px[1], px[2] * root_w)
                /\ sy = Rat(py[1], py[2] * root_h)
          /\ (px # Zero /\ over /\ (root_w = 0 \/ root_h = 0)) =>
                (pc = "done" /\ result = Raise("ZeroDivisionError"))
          /\ (/\ pc = "done" /\ desktop_scaling = Str1920x1080
              /\ root_w = 1920 /\ root_h = 1080
              /\ min_scaling = MIN_SCALING /\ max_scaling = MAX_SCALING) =>
                (sx = One /\ sy = One /\ result = Return(One, One))

\* "9x2" with a 3x2 root: 2 is within 0.1..8 and is divided all the same
C10_Witness ==
    /\ pc = "done"
    /\ desktop_scaling = <<"9", "x", "2">>
    /\ root_w = 3 /\ root_h = 2
    /\ min_scaling = MIN_SCALING /\ max_scaling = MAX_SCALING
    /\ sx = Rat(3, 1) /\ sy = One
    /\ result = Return(Rat(3, 1), One)

----------------------------------------------------------------------------
(* parse_scaling_value *)

\* ret is <<"None", 0, 0>>, <<"return", n, d>> or <<exception, 0, 0>>
RatioNone == <<"None", 0, 0>>
RatioReturn(n, dd) == <<"return", n, dd>>
RatioRaise(e) == <<e, 0, 0>>

\* float(v[:1]).as_integer_ratio(): the first character alone is
\* converted
PercentRatio(str) ==
    LET head == SubSeq(str, 1, 1)
    IN IF IsFloatLit(head)
       THEN RatioReturn(FloatVal(head)[1], FloatVal(head)[2])
       ELSE RatioRaise("ValueError")

\* v.replace("/", ":").replace(",", ":").split(":", 1)
RatioParts(str) == split1(replace(replace(str, "/", ":"), ",", ":"), <<":">>)

\* lines 167-174 for the integers vals
RatioOf(vals) ==
    IF \E i \in 1..Len(vals) : vals[i] <= 0 THEN RatioRaise("AssertionError")
    ELSE IF Len(vals) = 1 THEN RatioReturn(1, vals[1])
    ELSE IF vals[1] <= vals[2] THEN RatioReturn(vals[1], vals[2])
    ELSE RatioRaise("AssertionError")

\* lines 161-162: nothing to parse
RatioEmpty ==
    /\ vpc = "call"
    /\ v = <<>>
    /\ ret' = RatioNone
    /\ vpc' = "done"
    /\ UNCHANGED <<v, values, scalingVars, dictVars,
                   keyboardVars>>

\* lines 163-164: a percentage
RatioPercent ==
    /\ vpc = "call"
    /\ v # <<>>
    /\ endswith(v, <<"%">>)
    /\ ret' = PercentRatio(v)
    /\ vpc' = "done"
    /\ UNCHANGED <<v, values, scalingVars, dictVars,
                   keyboardVars>>

\* lines 165-166: one or two integers, ValueError if one is not an int
RatioSplit ==
    /\ vpc = "call"
    /\ v # <<>>
    /\ ~endswith(v, <<"%">>)
    /\ LET parts == RatioParts(v)
       IN IF \A i \in 1..Len(parts) : IsIntLit(parts[i])
          THEN /\ values' = [i \in 1..Len(parts) |-> IntVal(parts[i])]
               /\ vpc' = "check"
               /\ ret' = ret
          ELSE /\ values' = values
               /\ vpc' = "done"
               /\ ret' = RatioRaise("ValueError")
    /\ UNCHANGED <<v, scalingVars, dictVars,
                   keyboardVars>>

\* lines 167-174: the assertions and the returned pair
RatioCheck ==
    /\ vpc = "check"
    /\ ret' = RatioOf(values)
    /\ vpc' = "done"
    /\ UNCHANGED <<v, values, scalingVars, dictVars,
                   keyboardVars>>

MaxRatioTokens == 3

RatioTokens ==
    {<<"1">>, <<"2">>, <<"3">>, <<"5">>, <<"0">>, <<"%">>, <<":">>, <<"/">>,
     <<",">>, <<"-">>, <<".">>, <<"a">>}

RatioStrings ==
    TokenStrings(RatioTokens, MaxRatioTokens)
    \cup {<<"1", "0", "0", "%">>, <<"1", "2", ".", "5", "%">>}

InitRatio ==
    /\ v \in RatioStrings
    /\ values = <<>> /\ vpc = "call" /\ ret = <<"none", 0, 0>>
    /\ ScalingIdle
    /\ DictIdle
    /\ KeymapIdle
    /\ LayoutIdle

NextRatio == RatioEmpty \/ RatioPercent \/ RatioSplit \/ RatioCheck

SpecRatio == InitRatio /\ [][NextRatio]_vars

----------------------------------------------------------------------------
(* Claims about parse_scaling_value, checked under SpecRatio *)

Str50Percent == <<"5", "0", "%">>

\* C6: for a token ending in '%' whose prefix is a number, the result is
\* the exact fraction prefix/100 in lowest terms, the whole prefix being
\* used: "50%" gives (1, 2).
C6_PercentIsPrefixOver100 ==
    (/\ vpc = "done"
     /\ endswith(v, <<"%">>)
     /\ IsFloatLit(SubSeq(v, 1, Len(v) - 1)))
    => LET q == RDiv(FloatVal(SubSeq(v, 1, Len(v) - 1)), Rat(100, 1))
       IN /\ ret = RatioReturn(q[1], q[2])
          /\ v = Str50Percent => ret = RatioReturn(1, 2)

\* C7: the empty token gives None; every other token fails or returns
\* (n, d) with 0 < n <= d.
C7_NeverUpscales ==
    vpc = "done"
    => /\ v = <<>> => ret = RatioNone
       /\ v # <<>> =>
             \/ ret[1] \in {"ValueError", "AssertionError"}
             \/ ret[1] = "return" /\ 0 < ret[2] /\ ret[2] <= ret[3]

----------------------------------------------------------------------------
(* parse_simple_dict *)

\* The dict d is the sequence of its items in insertion order, each
\* <<key, isList, vals>>: a str value is <<key, FALSE, <<value>>>>, a list
\* value is <<key, TRUE, values>>.

\* el.split("=", 1): unpacked into k, v when it has two parts
KeyValue_NoMaxsplit(el) == split(el, <<"=">>)

KeyValue(el) == split1(el, <<"=">>)

HasKey(dict, k) == \E i \in 1..Len(dict) : dict[i][1] = k

\* d[k] = may_add() with a promotion that forgets the value stored before
may_add_DropsFirst(dict, k, val) ==
    IF ~HasKey(dict, k) THEN Append(dict, <<k, FALSE, <<val>>>>)
    ELSE [i \in 1..Len(dict) |->
            IF dict[i][1] # k THEN dict[i]
            ELSE IF dict[i][2] THEN <<k, TRUE, Append(dict[i][3], val)>>
            ELSE <<k, TRUE, <<val>>>>]

\* d[k] = may_add(): a new key is added with the str, a str is promoted
\* to a list, and the value is appended to the list
may_add(dict, k, val) ==
    IF ~HasKey(dict, k) THEN Append(dict, <<k, FALSE, <<val>>>>)
    ELSE [i \in 1..Len(dict) |->
            IF dict[i][1] # k THEN dict[i]
            ELSE <<k, TRUE, Append(dict[i][3], val)>>]

\* line 139: s.split(sep) raises ValueError for an empty separator
DictSplit ==
    /\ dpc = "call"
    /\ IF sep = <<>>
       THEN /\ dpc' = "raised"
            /\ UNCHANGED <<els, idx>>
       ELSE /\ els' = split(s, sep)
            /\ idx' = 1
            /\ dpc' = "loop"
    /\ UNCHANGED <<s, sep, d, warnings, scalingVars, ratioVars,
                   keyboardVars>>

\* lines 140-141: an empty entry is passed over
DictSkipEmpty ==
    /\ dpc = "loop"
    /\ idx <= Len(els)
    /\ els[idx] = <<>>
    /\ idx' = idx + 1
    /\ UNCHANGED <<s, sep, els, d, warnings, dpc, scalingVars, ratioVars,
                   keyboardVars>>

\* lines 143, 153-156: an entry without '=' does not unpack, a warning is
\* logged and the loop goes on
DictBadEntry ==
    /\ dpc = "loop"
    /\ idx <= Len(els)
    /\ els[idx] # <<>>
    /\ Len(KeyValue(els[idx])) # 2
    /\ warnings' = warnings + 1
    /\ idx' = idx + 1
    /\ UNCHANGED <<s, sep, els, d, dpc, scalingVars, ratioVars,
                   keyboardVars>>

\* lines 143-152: the entry is added
DictAdd ==
    /\ dpc = "loop"
    /\ idx <= Len(els)
    /\ els[idx] # <<>>
    /\ Len(KeyValue(els[idx])) = 2
    /\ d' = may_add(d, KeyValue(els[idx])[1], KeyValue(els[idx])[2])
    /\ idx' = idx + 1
    /\ UNCHANGED <<s, sep, els, warnings, dpc, scalingVars, ratioVars,
                   keyboardVars>>

\* line 157
DictReturn ==
    /\ dpc = "loop"
    /\ idx > Len(els)
    /\ dpc' = "done"
    /\ UNCHANGED <<s, sep, els, idx, d, warnings, scalingVars, ratioVars,
                   keyboardVars>>

MaxDictEntries == 3

DictEntries ==
    {<<"a", "=", "1">>, <<"a", "=", "2">>, <<"b", "=", "1">>, <<"a">>, <<>>,
     <<"a", "=">>, <<"=", "1">>, <<"a", "=", "b", "=", "1">>}

RECURSIVE DictEntryLists(_)
DictEntryLists(k) ==
    IF k = 0 THEN {<<>>}
    ELSE LET shorter == DictEntryLists(k - 1)
         IN shorter \cup {<<e>> \o l : e \in DictEntries, l \in shorter}

StrA1B2A3 == <<"a", "=", "1", ",", "b", "=", "2", ",", "a", "=", "3">>

DictStrings ==
    {join(l, <<",">>) : l \in DictEntryLists(MaxDictEntries)}
    \cup {StrA1B2A3, <<"b", "a", "d", ",", "a", "=", "1">>}

DictSeps == {<<>>, <<",">>, <<"=">>, <<"1", ",">>}

InitDict ==
    /\ s \in DictStrings
    /\ sep \in DictSeps
    /\ els = <<>> /\ idx = 0 /\ d = <<>> /\ warnings = 0 /\ dpc = "call"
    /\ ScalingIdle
    /\ RatioIdle
    /\ KeymapIdle
    /\ LayoutIdle

NextDict ==
    \/ DictSplit
    \/ DictSkipEmpty
    \/ DictBadEntry
    \/ DictAdd
    \/ DictReturn

SpecDict == InitDict /\ [][NextDict]_vars

----------------------------------------------------------------------------
(* Claims about parse_simple_dict, checked under SpecDict *)

\* the text of el before its first '=' and after it
KeyText(el) == SubSeq(el, 1, find(el, "="))
ValueText(el) == SubSeq(el, find(el, "=") + 2, Len(el))

\* the entries the loop has been through that hold a '='
Added == {i \in 1..(idx - 1) : find(els[i], "=") >= 0}

\* the k-th smallest member of the set of indices I
NthOf(I, k) == CHOOSE i \in I : Cardinality({j \in I : j <= i}) = k

\* C8: every value is kept, in input order: a key that occurs once maps
\* to its str, a key that occurs n >= 2 times maps to the list of its n
\* values in the order of the entries, and the keys are in the order of
\* their first occurrence.  "a=1,b=2,a=3" gives {"a": ["1","3"], "b": "2"}.
C8_ValuesKeptInOrder ==
    (dpc \in {"loop", "done"})
    => LET First == {i \in Added :
                        \A j \in Added : j < i => KeyText(els[j]) # KeyText(els[i])}
           Same(k) == {i \in Added : KeyText(els[i]) = k}
       IN /\ Len(d) = Cardinality(First)
          /\ \A n \in 1..Len(d) :
                LET k == KeyText(els[NthOf(First, n)])
                IN /\ d[n][1] = k
                   /\ d[n][2] = (Cardinality(Same(k)) >= 2)
                   /\ Len(d[n][3]) = Cardinality(Same(k))
                   /\ \A m \in 1..Len(d[n][3]) :
                         d[n][3][m] = ValueText(els[NthOf(Same(k), m)])
          /\ (dpc = "done" /\ s = StrA1B2A3 /\ sep = <<",">>) =>
                d = << <<<<"a">>, TRUE, <<<<"1">>, <<"3">>>>>>,
                       <<<<"b">>, FALSE, <<<<"2">>>>>> >>

\* "a=1,a=,a=2": a key three times, its second value the empty string
C8_Witness ==
    /\ dpc = "done"
    /\ sep = <<",">>
    /\ s = <<"a", "=", "1", ",", "a", "=", ",", "a", "=", "2">>
    /\ d = << <<<<"a">>, TRUE, <<<<"1">>, <<>>, <<"2">>>>>> >>

\* the dict built from the entries, by the loop of lines 139-156
RECURSIVE DictOf(_, _)
DictOf(entries, dict) ==
    IF entries = <<>> THEN dict
    ELSE DictOf(Tail(entries),
                IF entries[1] # <<>> /\ Len(KeyValue(entries[1])) = 2
                THEN may_add(dict, KeyValue(entries[1])[1], KeyValue(entries[1])[2])
                ELSE dict)

\* the entries of a sequence that are neither empty nor without '='
RECURSIVE WellFormed(_)
WellFormed(entries) ==
    IF entries = <<>> THEN <<>>
    ELSE (IF find(entries[1], "=") >= 0 THEN <<entries[1]>> ELSE <<>>)
         \o WellFormed(Tail(entries))

\* what C9 says of a finished call: the skipped entries change nothing,
\* one warning each for the entries without '=', and every entry is split
\* at its first '='
SkippedEntriesChangeNothing ==
    dpc = "done"
    => /\ d = DictOf(split(join(WellFormed(els), sep), sep), <<>>)
       /\ warnings = Cardinality({i \in 1..Len(els) :
                                     els[i] # <<>> /\ find(els[i], "=") < 0})
       /\ \A i \in 1..Len(els) :
             find(els[i], "=") >= 0 =>
                \E n \in 1..Len(d) :
                   /\ d[n][1] = KeyText(els[i])
                   /\ \E m \in 1..Len(d[n][3]) : d[n][3][m] = ValueText(els[i])

----------------------------------------------------------------------------
(* Keyboard: get_keymap_modifiers and update_modifier_map *)

\* A dict is the sequence of its items <<key, value>> in insertion order.
\* dict[k] = val
DictSet(dict, k, val) ==
    IF \E i \in 1..Len(dict) : dict[i][1] = k
    THEN [i \in 1..Len(dict) |-> IF dict[i][1] = k THEN <<k, val>> ELSE dict[i]]
    ELSE Append(dict, <<k, val>>)

HasItem(dict, k) == \E i \in 1..Len(dict) : dict[i][1] = k

\* dict[k] for a key of the dict
DictGet(dict, k) == dict[CHOOSE i \in 1..Len(dict) : dict[i][1] = k][2]

\* meanings[keyname] = modifier for every key name of one modifier
RECURSIVE MeaningsOfKeys(_, _, _)
MeaningsOfKeys(meanings, modifier, keys) ==
    IF keys = <<>> THEN meanings
    ELSE MeaningsOfKeys(DictSet(meanings, keys[1], modifier), modifier, Tail(keys))

\* lines 117-120: the loop over mod_mappings.items(), each item
\* <<modifier, key names>>
RECURSIVE MeaningsOf(_, _)
MeaningsOf(meanings, mappings) ==
    IF mappings = <<>> THEN meanings
    ELSE MeaningsOf(MeaningsOfKeys(meanings, mappings[1][1], mappings[1][2]),
                    Tail(mappings))

StrNumLock == "Num_Lock"

\* do_get_keymap_modifiers(): bindings is keyboard_bindings, mappings is
\* what get_modifier_mappings() gives now, <<"ok", dict>>, or
\* <<"XError", <<>>>> for an X11 error, which xlog swallows
do_get_keymap_modifiers(bindings, isWayland, mappings) ==
    IF ~bindings
    THEN (IF isWayland THEN <<"tuple", <<>>, <<>>, <<"mod2">>>>
          ELSE <<"tuple", <<>>, <<>>, <<>>>>)
    ELSE IF mappings[1] # "ok" \/ mappings[2] = <<>>
         THEN <<"tuple", <<>>, <<>>, <<>>>>
    ELSE LET meanings == MeaningsOf(<<>>, mappings[2])
         IN <<"tuple", meanings, <<>>,
              IF HasItem(meanings, StrNumLock)
              THEN <<DictGet(meanings, StrNumLock)>> ELSE <<>>>>

\* a cache test that never finds the stored value
NeedsQuery_Always(km) == TRUE

\* line 100: self.keymap_modifiers is None
NeedsQuery(km) == km = NoModifiers

\* an update that keeps the stored value
Invalidated_Kept(km) == km

\* line 279: self.keymap_modifiers = None
Invalidated(km) == NoModifiers

\* xpra.keyboard.mask.MODIFIER_MAP, and the result of grok_modifier_map
MODIFIER_MAP == <<"MODIFIER_MAP", <<>>>>
grok_modifier_map(mod_meanings) == <<"grok", mod_meanings>>

MaxGets == 3

\* the modifier mappings the X11 server may hold
ModMappings ==
    {<<"ok", <<>>>>,
     <<"ok", << <<"shift", <<"Shift_L", "Shift_R">>>> >>>>,
     <<"ok", << <<"shift", <<"Shift_L">>>>, <<"mod2", <<"Num_Lock">>>> >>>>,
     <<"ok", << <<"mod2", <<"Num_Lock">>>>, <<"mod3", <<"Num_Lock">>>> >>>>,
     <<"XError", <<>>>>}

ModMeanings == {<<>>, << <<"Shift_L", "shift">> >>}

\* lines 99-102.  queries counts the calls of do_get_keymap_modifiers and
\* gets the calls of get_keymap_modifiers since the last
\* update_modifier_map; fresh is what the bindings held at the first of
\* these calls.
GetKeymapModifiers ==
    /\ gets < MaxGets
    /\ LET now == do_get_keymap_modifiers(keyboard_bindings, wayland, mod_mappings)
           miss == NeedsQuery(keymap_modifiers)
       IN /\ keymap_modifiers' = IF miss THEN now ELSE keymap_modifiers
          /\ queries' = IF miss THEN queries + 1 ELSE queries
          /\ fresh' = IF gets = 0 THEN now ELSE fresh
    /\ returned' = keymap_modifiers'
    /\ gets' = gets + 1
    /\ UNCHANGED <<keyboard_bindings, modifier_map, mod_mappings, wayland,
                   layoutVars, scalingVars, dictVars, ratioVars>>

\* lines 271-285: the import of grok_modifier_map succeeds or raises
\* ImportError; the stored modifiers are dropped in both cases
UpdateModifierMap ==
    /\ \E importError \in BOOLEAN, mod_meanings \in ModMeanings :
          modifier_map' = IF importError THEN MODIFIER_MAP
                          ELSE grok_modifier_map(mod_meanings)
    /\ keymap_modifiers' = Invalidated(keymap_modifiers)
    /\ queries' = 0
    /\ gets' = 0
    /\ UNCHANGED <<keyboard_bindings, mod_mappings, wayland, returned, fresh,
                   layoutVars, scalingVars, dictVars, ratioVars>>

\* the X11 server's modifier mapping changes (line 113 reads it)
ChangeModMappings ==
    /\ keyboard_bindings
    /\ \E m \in ModMappings : m # mod_mappings /\ mod_mappings' = m
    /\ UNCHANGED <<keymap_modifiers, keyboard_bindings, modifier_map, wayland,
                   queries, gets, returned, fresh,
                   layoutVars, scalingVars, dictVars, ratioVars>>

\* lines 26-44: the X11 bindings are loaded or not, on X11 or Wayland
InitKeymap ==
    /\ keymap_modifiers = NoModifiers
    /\ keyboard_bindings \in BOOLEAN
    /\ wayland \in BOOLEAN
    /\ mod_mappings \in ModMappings
    /\ keyboard_bindings = FALSE => mod_mappings = <<"ok", <<>>>>
    /\ modifier_map = <<"unset", <<>>>>
    /\ queries = 0 /\ gets = 0
    /\ returned = NoModifiers /\ fresh = NoModifiers
    /\ LayoutIdle
    /\ ScalingIdle
    /\ DictIdle
    /\ RatioIdle

NextKeymap == GetKeymapModifiers \/ UpdateModifierMap \/ ChangeModMappings

SpecKeymap == InitKeymap /\ [][NextKeymap]_vars

\* C11: get_keymap_modifiers caches its answer and update_modifier_map
\* invalidates it: do_get_keymap_modifiers runs at most once between two
\* update_modifier_map calls, every get_keymap_modifiers in between returns
\* the value stored by the first one, and the first get_keymap_modifiers
\* after an update_modifier_map queries again, also after the fallback to
\* MODIFIER_MAP.
C11_ModifiersCached ==
    /\ queries <= 1
    /\ gets = 0 => (queries = 0 /\ keymap_modifiers = NoModifiers)
    /\ gets >= 1 =>
          /\ queries = 1
          /\ keymap_modifiers # NoModifiers
          /\ returned = keymap_modifiers
          /\ returned = fresh

\* after a fallback to MODIFIER_MAP: two calls, one query, and the value
\* returned is the stored one although the server's mapping has changed
C11_Witness ==
    /\ modifier_map = MODIFIER_MAP
    /\ gets >= 2
    /\ queries = 1
    /\ returned = fresh
    /\ returned # do_get_keymap_modifiers(keyboard_bindings, wayland, mod_mappings)

----------------------------------------------------------------------------
(* Keyboard: the GNOME input sources and set_platform_layout *)

\* The reply to ".inputSources" is a JSON object; its values, in order,
\* are <<TRUE, index, id>>, or <<FALSE, 0, <<>>>> for a value without a
\* usable "index" or "id", on which _store_input_sources raises.
BadSource == <<FALSE, 0, <<>>>>

\* the whole source id kept as the key
LayoutKey_WholeId(id) == id

\* line 59: layout_variant.split("+", 1)[0]
LayoutKey(id) == split1(id, <<"+">>)[1]

\* lines 56-60: <<input sources, raised>> after the loop over the values,
\* which ends at the first value that raises
RECURSIVE StoreInputSources(_, _)
StoreInputSources(sources, payload) ==
    IF payload = <<>> THEN <<sources, FALSE>>
    ELSE IF ~payload[1][1] THEN <<sources, TRUE>>
    ELSE StoreInputSources(
            DictSet(sources, LayoutKey(payload[1][3]), payload[1][2]),
            Tail(payload))

\* an in-flight call of org.gnome.Shell Eval: <<cmd, index, has callback>>
InputSourcesRequest == <<"inputSources", -1, TRUE>>
ActivateRequest(index) == <<"activate", index, FALSE>>

RemoveAt(q, i) == SubSeq(q, 1, i - 1) \o SubSeq(q, i + 1, Len(q))

StrUs == <<"u", "s">>
StrFr == <<"f", "r">>
StrDe == <<"d", "e">>
StrUsIntl == <<"u", "s", "+", "i">>

MaxActivations == 2

Layouts == {StrUs, StrFr, StrDe, StrUsIntl, <<"x", "x">>}

Payloads ==
    {<<>>,
     << <<TRUE, 0, StrUs>>, <<TRUE, 1, <<"f", "r", "+", "a">>>> >>,
     << <<TRUE, 0, StrUsIntl>>, <<TRUE, 1, StrUs>> >>,
     << <<TRUE, 0, StrDe>>, BadSource, <<TRUE, 2, StrFr>> >>,
     << BadSource >>}

\* lines 88-94.  last_call is <<layout, input sources before, input
\* sources after, index sent or -1, state of the reply at the call>>;
\* an index of -2 stands for the AttributeError of a call_function on a
\* missing D-Bus helper.
SetPlatformLayout ==
    /\ Len(activations) < MaxActivations
    /\ \E layout \in Layouts :
          IF ~HasItem(input_sources, layout)
          THEN /\ last_call' = <<layout, input_sources, input_sources, -1, reply[1]>>
               /\ UNCHANGED <<in_flight, activations>>
          ELSE LET index == DictGet(input_sources, layout)
               IN IF ~dbus_helper
                  THEN /\ last_call' = <<layout, input_sources, input_sources,
                                         -2, reply[1]>>
                       /\ UNCHANGED <<in_flight, activations>>
                  ELSE /\ in_flight' = Append(in_flight, ActivateRequest(index))
                       /\ activations' = Append(activations, <<layout, index>>)
                       /\ last_call' = <<layout, input_sources, input_sources,
                                         index, reply[1]>>
    /\ UNCHANGED <<input_sources, dbus_helper, reply,
                   keymapVars, scalingVars, dictVars, ratioVars>>

\* lines 75-76: err_cb, the call failed
ReplyError ==
    /\ \E i \in 1..Len(in_flight) :
          /\ in_flight' = RemoveAt(in_flight, i)
          /\ reply' = IF in_flight[i] = InputSourcesRequest
                      THEN <<"error", <<>>>> ELSE reply
    /\ UNCHANGED <<input_sources, dbus_helper, activations, last_call,
                   keymapVars, scalingVars, dictVars, ratioVars>>

\* lines 65-69: ok_cb with success false
ReplyUnsuccessful ==
    /\ \E i \in 1..Len(in_flight) :
          /\ in_flight' = RemoveAt(in_flight, i)
          /\ reply' = IF in_flight[i] = InputSourcesRequest
                      THEN <<"unsuccessful", <<>>>> ELSE reply
    /\ UNCHANGED <<input_sources, dbus_helper, activations, last_call,
                   keymapVars, scalingVars, dictVars, ratioVars>>

\* lines 65-73: ok_cb with success true; the callback, when there is one,
\* stores the sources, and what it raises is logged
ReplySuccess ==
    /\ \E i \in 1..Len(in_flight), payload \in Payloads :
          /\ in_flight' = RemoveAt(in_flight, i)
          /\ IF in_flight[i][3]
             THEN LET st == StoreInputSources(input_sources, payload)
                  IN /\ input_sources' = st[1]
                     /\ reply' = <<IF st[2] THEN "raised" ELSE "stored", payload>>
             ELSE UNCHANGED <<input_sources, reply>>
    /\ UNCHANGED <<dbus_helper, activations, last_call,
                   keymapVars, scalingVars, dictVars, ratioVars>>

\* lines 41-52: with a D-Bus helper the input sources are asked for
InitLayout ==
    /\ input_sources = <<>>
    /\ dbus_helper \in BOOLEAN
    /\ in_flight = IF dbus_helper THEN <<InputSourcesRequest>> ELSE <<>>
    /\ reply = IF dbus_helper THEN <<"pending", <<>>>> ELSE <<"none", <<>>>>
    /\ activations = <<>>
    /\ last_call = <<<<>>, <<>>, <<>>, -1, reply[1]>>
    /\ KeymapIdle
    /\ ScalingIdle
    /\ DictIdle
    /\ RatioIdle

NextLayout == SetPlatformLayout \/ ReplyError \/ ReplyUnsuccessful \/ ReplySuccess

SpecLayout == InitLayout /\ [][NextLayout]_vars

\* the part of a source id before its first '+'
LayoutPart(id) == IF find(id, "+") >= 0 THEN SubSeq(id, 1, find(id, "+")) ELSE id

\* the values of the payload that _store_input_sources went through
Processed(payload) ==
    {i \in 1..Len(payload) : \A j \in 1..i : payload[j][1]}

\* the payload records index for layout: the last processed value whose
\* id starts with layout has this index
Records(payload, layout, index) ==
    LET With == {i \in Processed(payload) : LayoutPart(payload[i][3]) = layout}
    IN With # {} /\ payload[CHOOSE i \in With : \A j \in With : j <= i][2] = index

Knows(payload, layout) == \E i \in Processed(payload) : LayoutPart(payload[i][3]) = layout

SuccessStates == {"stored", "raised"}

\* C12: set_platform_layout sends an activation request only for a layout
\* recorded by a successful input-sources reply, with the index recorded
\* for it; a call before the reply, after an error or an unsuccessful
\* reply, or for an unknown layout sends nothing; no call changes the
\* recorded input sources.
C12_ActivationOnlyForRecorded ==
    /\ last_call[2] = last_call[3]
    /\ last_call[4] # -2
    /\ last_call[5] \notin SuccessStates => last_call[4] = -1
    /\ last_call[4] >= 0 =>
          /\ reply[1] \in SuccessStates
          /\ Records(reply[2], last_call[1], last_call[4])
    /\ (last_call[5] \in SuccessStates /\ last_call[4] = -1) =>
          ~Knows(reply[2], last_call[1])
    /\ \A n \in 1..Len(activations) :
          /\ reply[1] \in SuccessStates
          /\ Records(reply[2], activations[n][1], activations[n][2])
    /\ \A n \in 1..Len(in_flight) :
          in_flight[n][1] = "activate" =>
             \E m \in 1..Len(activations) : activations[m][2] = in_flight[n][2]
    /\ reply[1] \notin SuccessStates => input_sources = <<>>

\* "us+i" at index 0 and "us" at index 1 were stored: "us" is activated
\* with index 1
C12_Witness ==
    /\ reply = <<"stored", << <<TRUE, 0, StrUsIntl>>, <<TRUE, 1, StrUs>> >>>>
    /\ last_call[1] = StrUs
    /\ last_call[4] = 1
    /\ activations = << <<StrUs, 1>> >>
    /\ in_flight = <<ActivateRequest(1)>>

====
